---- MODULE Spec2Model ----
(***************************************************************************)
(* Model of streamlit_app.py: the SecureBank transaction simulator.        *)
(*                                                                         *)
(* One browser session against one Streamlit process.  Every user action   *)
(* makes Streamlit run the script from top to bottom, so every action      *)
(* below is one complete script run: the handler of the button that was    *)
(* pressed followed by the ledger tab's get_history() call (line 239).     *)
(*                                                                         *)
(* Money is in whole rupees.  Feature values are in hundredths (a          *)
(* template value of -2.3 is -230, the jitter bound 0.1 is 10).            *)
(* Time is in seconds.                                                     *)
(***************************************************************************)
EXTENDS Integers, Sequences, FiniteSets

(***************************************************************************)
(* Program constants.                                                      *)
(***************************************************************************)
INITIAL_WALLET_BALANCE == 500000

RESET_WALLET_BALANCE == 500000

SECRET_FRAUD_MERCHANT == "Risk-Wallet.com"

SECRET_FRAUD_AMOUNT == 987654

CACHE_TTL == 60

TIME_MODULUS == 172800

NUM_FEATURES == 28

FRAUD_TRANSACTION_TEMPLATE ==
    << -230,  110, -450,  410, -210,
       -120, -550,   70, -210, -520,
        400, -790,   10, -810,  -30,
       -310, -1220,  80,   10,   30,
         60,   10,    0,  -20,  -10,
         10,   40,   10 >>

(***************************************************************************)
(* Bounds of the model.                                                    *)
(***************************************************************************)
\* the wall clock at the first script run
StartTime == 172770

\* the clock runs up to StartTime + Horizon
Horizon == 60

\* the times that pass between two script runs: less than the ttl, the ttl
TickSteps == {30, 60}

\* the ledger endpoint answers with 0..MaxRecords records
MaxRecords == 1

\* random.random() is drawn from the grid 0/RandomGrid .. RandomGrid/RandomGrid
RandomGrid == 4

\* amounts typed into the payment form (number_input, min_value = 0.01)
Amounts == {200000, 300000, SECRET_FRAUD_AMOUNT}

\* merchant names typed into the payment form
Merchants == {SECRET_FRAUD_MERCHANT, "Amazon Web Services"}

\* the draws of the 28 calls of random.uniform in one submission
Draws ==
    { [i \in 1..NUM_FEATURES |-> i % (RandomGrid + 1)],
      [i \in 1..NUM_FEATURES |-> RandomGrid - (i % (RandomGrid + 1))] }

(***************************************************************************)
(* The external collaborator, as seen through requests.                    *)
(***************************************************************************)
\* bodies of a response to POST /predict/:
\*   scored        {"is_fraud": f, "probability_fraud": <number>}
\*   undecodable   response.json(), a key lookup or the * 100 raises
\*   unformattable probability_fraud is a string or a list: * 100 succeeds,
\*                 the format specification :.2f raises
PredictBodies ==
    [shape : {"scored", "unformattable"}, is_fraud : {0, 1}]
    \cup [shape : {"undecodable"}, is_fraud : {0}]

\* net: "ok" a response arrived, "refused" requests raised ConnectionError,
\*      "broken" requests raised another exception (a read timeout)
PredictResponses ==
    [net : {"ok"}, status : {200}, body : PredictBodies]
    \cup [net : {"ok"}, status : {500},
          body : {[shape |-> "undecodable", is_fraud |-> 0]}]
    \cup [net : {"refused", "broken"}, status : {0},
          body : {[shape |-> "undecodable", is_fraud |-> 0]}]

NoResponse ==
    [net |-> "none", status |-> 0,
     body |-> [shape |-> "undecodable", is_fraud |-> 0]]

\* responses to GET /history/: records is the number of records in the array
HistoryResponses ==
    [net : {"ok"}, status : {200}, records : 0..MaxRecords]
    \cup [net : {"ok"}, status : {500}, records : {0}]
    \cup [net : {"refused", "broken"}, status : {0}, records : {0}]

(***************************************************************************)
(* The st.cache_data entry of get_history: the returned frame, the         *)
(* st.error message recorded for replay, and the time it was stored.       *)
(***************************************************************************)
NoEntry == [present |-> FALSE, value |-> 0, msg |-> "none", fetched_at |-> 0]

ClearCacheKeep(c) == c

\* st.cache_data.clear()
ClearCache(c) == NoEntry

CacheValidNever(c, t) == FALSE

\* the ttl = 60 check made when the cached function is called
CacheValid(c, t) == c.present /\ t - c.fetched_at < CACHE_TTL

\* the body of get_history: an empty frame on every failure
FetchResult(resp) ==
    IF resp.net = "refused" THEN [value |-> 0, msg |-> "connection"]
    ELSE IF resp.net = "broken" THEN [value |-> 0, msg |-> "exception"]
    ELSE IF resp.status = 200 THEN [value |-> resp.records, msg |-> "none"]
    ELSE [value |-> 0, msg |-> "status"]

\* a call of the cached get_history at time t
get_history(c, t, resp) ==
    IF CacheValid(c, t)
    THEN [cache |-> c, df |-> c.value, msg |-> c.msg, issued |-> FALSE]
    ELSE LET r == FetchResult(resp)
         IN  [cache |-> [present |-> TRUE, value |-> r.value, msg |-> r.msg,
                         fetched_at |-> t],
              df |-> r.value, msg |-> r.msg, issued |-> TRUE]

(***************************************************************************)
(* The payment handler.                                                    *)
(***************************************************************************)
InsufficientFundsNever(a, balance) == FALSE

InsufficientFundsInitial(a, balance) == a > INITIAL_WALLET_BALANCE

\* the funds check
InsufficientFunds(a, balance) == a > balance

is_secret_fraud(m, a) == m = SECRET_FRAUD_MERCHANT \/ a = SECRET_FRAUD_AMOUNT

\* random.uniform(lo, hi) = lo + (hi - lo) * random(), random() = r / RandomGrid
Uniform(lo, hi, r) == lo + ((hi - lo) * r) \div RandomGrid

v_featuresWide(secret, draw) ==
    [i \in 1..NUM_FEATURES |->
        FRAUD_TRANSACTION_TEMPLATE[i] + Uniform(-500, 500, draw[i])]

v_features(secret, draw) ==
    IF secret
    THEN [i \in 1..NUM_FEATURES |->
            FRAUD_TRANSACTION_TEMPLATE[i] + Uniform(-10, 10, draw[i])]
    ELSE [i \in 1..NUM_FEATURES |-> Uniform(-500, 500, draw[i])]

NoPayload == [Time |-> 0, Amount |-> 0, V |-> << >>]

transaction_data(t, a, v) == [Time |-> t % TIME_MODULUS, Amount |-> a, V |-> v]

OutcomeInverted(resp) ==
    IF resp.net = "refused" THEN "ConnectionError"
    ELSE IF resp.net = "broken" THEN "UnexpectedError"
    ELSE IF resp.status # 200 THEN "ApiError"
    ELSE IF resp.body.shape # "scored" THEN "UnexpectedError"
    ELSE IF resp.body.is_fraud = 0 THEN "Denied"
    ELSE "Approved"

\* what the user is told about a submission that reached the POST
Outcome(resp) ==
    IF resp.net = "refused" THEN "ConnectionError"
    ELSE IF resp.net = "broken" THEN "UnexpectedError"
    ELSE IF resp.status # 200 THEN "ApiError"
    ELSE IF resp.body.shape = "undecodable" THEN "UnexpectedError"
    ELSE IF resp.body.shape = "unformattable" THEN "UnexpectedError"
    ELSE IF resp.body.is_fraud = 1 THEN "Denied"
    ELSE "Approved"

DebitTwice(balance, a) == balance - 2 * a

\* st.session_state.wallet_balance -= amount
Debit(balance, a) == balance - a

NewBalanceEager(resp, balance, a) ==
    IF resp.net = "ok" /\ resp.status = 200 /\ resp.body.shape = "scored"
       /\ resp.body.is_fraud = 1
    THEN balance
    ELSE Debit(balance, a)

\* the wallet after a submission that reached the POST: the debit is the
\* first statement of the approved branch, before the message is formatted
NewBalance(resp, balance, a) ==
    IF resp.net = "ok" /\ resp.status = 200
       /\ resp.body.shape # "undecodable" /\ resp.body.is_fraud # 1
    THEN Debit(balance, a)
    ELSE balance

ResetBalanceKeep(balance) == balance

\* the Reset Balance button
ResetBalance(balance) == RESET_WALLET_BALANCE

(***************************************************************************)
(* State.                                                                  *)
(***************************************************************************)
VARIABLES
    wallet_balance,   \* st.session_state.wallet_balance
    cache,            \* the st.cache_data entry of get_history
    now,              \* the wall clock
    history_df,       \* the frame the ledger tab got in the last run
    history_msg,      \* the st.error message the ledger tab showed with it
    lastOp,           \* the last step: the button of the last run, or "tick"
    outcome,          \* the outcome, if the last run was a submission
    amount,           \* the amount submitted in the last run
    merchant,         \* the merchant submitted in the last run
    posted,           \* the last run issued POST /predict/
    payload,          \* the JSON body of that POST
    issuedGet,        \* the last run issued GET /history/
    prevBalance,      \* wallet_balance when the last step started
    wasValid,         \* the cache entry was valid when the last step started
    response          \* the answer to the POST of the last run

vars == << wallet_balance, cache, now, history_df, history_msg, lastOp,
           outcome, amount, merchant, posted, payload, issuedGet,
           prevBalance, wasValid, response >>

\* the first script run of the process: the wallet is created and the
\* ledger tab fills the empty cache
Init ==
    \E resp \in HistoryResponses :
        LET h == get_history(NoEntry, StartTime, resp)
        IN  /\ wallet_balance = INITIAL_WALLET_BALANCE
            /\ cache = h.cache
            /\ now = StartTime
            /\ history_df = h.df
            /\ history_msg = h.msg
            /\ lastOp = "load"
            /\ outcome = "none"
            /\ amount = 0
            /\ merchant = ""
            /\ posted = FALSE
            /\ payload = NoPayload
            /\ issuedGet = h.issued
            /\ prevBalance = INITIAL_WALLET_BALANCE
            /\ wasValid = FALSE
            /\ response = NoResponse

\* the run's last step: the ledger tab calls get_history
Ledger(c, resp) ==
    LET h == get_history(c, now, resp)
    IN  /\ cache' = h.cache
        /\ history_df' = h.df
        /\ history_msg' = h.msg
        /\ issuedGet' = h.issued

\* "Submit Secure Payment"
Submit ==
    \E a \in Amounts, m \in Merchants, hresp \in HistoryResponses :
        /\ lastOp' = "submit"
        /\ amount' = a
        /\ merchant' = m
        /\ prevBalance' = wallet_balance
        /\ wasValid' = CacheValid(cache, now)
        /\ IF InsufficientFunds(a, wallet_balance)
           THEN /\ outcome' = "InsufficientFunds"
                /\ posted' = FALSE
                /\ payload' = NoPayload
                /\ response' = NoResponse
                /\ wallet_balance' = wallet_balance
           ELSE \E draw \in Draws, presp \in PredictResponses :
                /\ outcome' = Outcome(presp)
                /\ response' = presp
                /\ posted' = TRUE
                /\ payload' = transaction_data(now, a,
                                  v_features(is_secret_fraud(m, a), draw))
                /\ wallet_balance' = NewBalance(presp, wallet_balance, a)
        /\ Ledger(ClearCache(cache), hresp)
        /\ UNCHANGED now

\* "Reset Balance": the assignment, then st.rerun() starts a full run
Reset ==
    \E hresp \in HistoryResponses :
        /\ lastOp' = "reset"
        /\ prevBalance' = wallet_balance
        /\ wasValid' = CacheValid(cache, now)
        /\ wallet_balance' = ResetBalance(wallet_balance)
        /\ posted' = FALSE
        /\ payload' = NoPayload
        /\ response' = NoResponse
        /\ outcome' = "none"
        /\ amount' = 0
        /\ merchant' = ""
        /\ Ledger(cache, hresp)
        /\ UNCHANGED now

\* "Refresh History"
Refresh ==
    \E hresp \in HistoryResponses :
        /\ lastOp' = "refresh"
        /\ prevBalance' = wallet_balance
        /\ wasValid' = CacheValid(cache, now)
        /\ posted' = FALSE
        /\ payload' = NoPayload
        /\ response' = NoResponse
        /\ outcome' = "none"
        /\ amount' = 0
        /\ merchant' = ""
        /\ Ledger(ClearCache(cache), hresp)
        /\ UNCHANGED << wallet_balance, now >>

\* the page is loaded again: a new session state, the same process cache
PageLoad ==
    \E hresp \in HistoryResponses :
        /\ lastOp' = "load"
        /\ prevBalance' = INITIAL_WALLET_BALANCE
        /\ wasValid' = CacheValid(cache, now)
        /\ wallet_balance' = INITIAL_WALLET_BALANCE
        /\ outcome' = "none"
        /\ amount' = 0
        /\ merchant' = ""
        /\ posted' = FALSE
        /\ payload' = NoPayload
        /\ response' = NoResponse
        /\ Ledger(cache, hresp)
        /\ UNCHANGED now

\* time passes between two runs
Tick ==
    \E d \in TickSteps :
    /\ now + d <= StartTime + Horizon
    /\ now' = now + d
    /\ lastOp' = "tick"
    /\ posted' = FALSE
    /\ issuedGet' = FALSE
    /\ prevBalance' = wallet_balance
    /\ wasValid' = CacheValid(cache, now)
    /\ response' = NoResponse
    /\ outcome' = "none"
    /\ amount' = 0
    /\ merchant' = ""
    /\ payload' = NoPayload
    /\ UNCHANGED << wallet_balance, cache, history_df, history_msg >>

Next == Submit \/ Reset \/ Refresh \/ PageLoad \/ Tick

Spec == Init /\ [][Next]_vars

(***************************************************************************)
(* Properties.                                                             *)
(***************************************************************************)
Submitted == lastOp = "submit"

Triggered == merchant = SECRET_FRAUD_MERCHANT \/ amount = SECRET_FRAUD_AMOUNT

Scored == response.net = "ok" /\ response.status = 200

\* an earlier get_history call stored its result less than 60 seconds ago
InsideWindow == cache.present /\ now - cache.fetched_at < CACHE_TTL

\* C1 (as stated): a submission with amount > wallet_balance ends in
\* InsufficientFunds, issues no external call at all (no POST and no GET)
\* and leaves wallet_balance unchanged.
C1_NoExternalCall ==
    (Submitted /\ amount > prevBalance)
        => /\ outcome = "InsufficientFunds"
           /\ ~posted
           /\ ~issuedGet
           /\ wallet_balance = prevBalance

\* C1 (amended): a submission with amount > wallet_balance ends in
\* InsufficientFunds, issues no POST to the scorer and leaves wallet_balance
\* unchanged; its run clears the history cache and issues one GET /history/.
C1_NoPostNoDebit ==
    (Submitted /\ amount > prevBalance)
        => /\ outcome = "InsufficientFunds"
           /\ ~posted
           /\ payload = NoPayload
           /\ wallet_balance = prevBalance
           /\ issuedGet

C1_Witness ==
    /\ Submitted
    /\ amount > prevBalance
    /\ amount # SECRET_FRAUD_AMOUNT
    /\ outcome = "InsufficientFunds"
    /\ wasValid
    /\ issuedGet

\* C2: a submission whose outcome is not Approved (InsufficientFunds, Denied,
\* ConnectionError, ApiError, UnexpectedError) leaves wallet_balance equal to
\* its value before the submission.
C2_BalanceChangesOnlyOnApproved ==
    (Submitted /\ outcome # "Approved") => wallet_balance = prevBalance

\* C3: an Approved submission of amount A leaves wallet_balance at the old
\* balance minus A, and no step that is not a submission (a reset, a page
\* load, a history refresh, the passing of time) lowers the balance.
C3_DebitExactlyOnce ==
    /\ ((Submitted /\ outcome = "Approved")
            => wallet_balance = prevBalance - amount)
    /\ (~Submitted => wallet_balance >= prevBalance)
    /\ (lastOp \in {"refresh", "tick"} => wallet_balance = prevBalance)

C3_Witness ==
    /\ Submitted
    /\ outcome = "Approved"
    /\ amount > 0
    /\ prevBalance < INITIAL_WALLET_BALANCE
    /\ wallet_balance = prevBalance - amount

\* C4: a run that invalidates the history cache (Refresh History, or a
\* submission) issues a new GET /history/ in its get_history call, stores
\* that answer, and shows it instead of the previous snapshot.
C4_InvalidationForcesFetch ==
    lastOp \in {"submit", "refresh"}
        => /\ issuedGet
           /\ cache.present
           /\ cache.fetched_at = now
           /\ history_df = cache.value
           /\ history_msg = cache.msg

C4_Witness ==
    /\ lastOp = "refresh"
    /\ wasValid
    /\ issuedGet
    /\ cache.fetched_at = now
    /\ history_df = MaxRecords

\* C5: a get_history call made while the entry of an earlier call is inside
\* its 60 second window, with no invalidation in between, returns what the
\* earlier call returned (frame and message), issues no GET and keeps the
\* entry; the earlier call may have failed and returned the empty frame.
C5_CachedFetchIdempotent ==
    [][ (lastOp' \in {"reset", "load"} /\ InsideWindow)
            => /\ ~issuedGet'
               /\ history_df' = cache.value
               /\ history_msg' = cache.msg
               /\ cache' = cache ]_vars

C5_Witness ==
    /\ lastOp = "reset"
    /\ wasValid
    /\ ~issuedGet
    /\ now > cache.fetched_at
    /\ cache.msg = "connection"
    /\ history_df = 0
    /\ history_msg = "connection"

\* C6 (as stated): a submission that ends in ConnectionError leaves
\* wallet_balance unchanged and leaves the history cache entry as it was.
C6_CacheUntouchedOnConnectionError ==
    [][ (lastOp' = "submit" /\ outcome' = "ConnectionError")
            => /\ wallet_balance' = wallet_balance
               /\ cache' = cache ]_vars

\* C6 (amended): a submission that ends in ConnectionError leaves
\* wallet_balance unchanged; the entry cached before it is discarded and the
\* cache holds the answer of the GET /history/ the same run issued.
C6_ConnectionErrorKeepsBalance ==
    (Submitted /\ outcome = "ConnectionError")
        => /\ response.net = "refused"
           /\ posted
           /\ wallet_balance = prevBalance
           /\ issuedGet
           /\ cache.present
           /\ cache.fetched_at = now

C6_Witness ==
    /\ Submitted
    /\ outcome = "ConnectionError"
    /\ wasValid
    /\ now > StartTime
    /\ cache.fetched_at = now
    /\ cache.msg = "connection"
    /\ wallet_balance = prevBalance

\* C7 (as stated): a submission that passes the funds check and gets an HTTP
\* 200 response is Denied exactly when is_fraud = 1 and Approved, with the
\* debit, otherwise, whether or not is_secret_fraud holds.
C7_ScorerDecides ==
    (Submitted /\ posted /\ Scored)
        => /\ (outcome = "Denied" <=> response.body.is_fraud = 1)
           /\ (response.body.is_fraud # 1
                => /\ outcome = "Approved"
                   /\ wallet_balance = prevBalance - amount)

\* C7 (amended): a submission that passes the funds check and gets an HTTP
\* 200 response carrying is_fraud and a numeric probability_fraud is Denied
\* (no debit) exactly when is_fraud = 1 and Approved, with the debit,
\* otherwise, whether or not is_secret_fraud holds; a 200 response with any
\* other body ends in UnexpectedError.
C7_ScorerDecidesWellFormed ==
    (Submitted /\ posted /\ Scored)
        => IF response.body.shape = "scored"
           THEN /\ (outcome = "Denied" <=> response.body.is_fraud = 1)
                /\ (outcome = "Denied" => wallet_balance = prevBalance)
                /\ (response.body.is_fraud # 1
                     => /\ outcome = "Approved"
                        /\ wallet_balance = prevBalance - amount)
           ELSE outcome = "UnexpectedError"

C7_Witness ==
    /\ Submitted
    /\ posted
    /\ merchant = SECRET_FRAUD_MERCHANT
    /\ Scored
    /\ response.body.shape = "scored"
    /\ response.body.is_fraud = 0
    /\ outcome = "Approved"
    /\ wallet_balance = prevBalance - amount

\* C8: after Reset Balance the wallet holds exactly the initial constant,
\* whatever it held before.
C8_ResetRestoresInitial ==
    lastOp = "reset" => wallet_balance = INITIAL_WALLET_BALANCE

C8_Witness ==
    /\ lastOp = "reset"
    /\ prevBalance # INITIAL_WALLET_BALANCE
    /\ wallet_balance = INITIAL_WALLET_BALANCE

\* C9: when the merchant or the amount of a submission is a trigger, the
\* feature vector sent to the scorer has 28 values, each within 0.1 of the
\* corresponding value of the fraud template.
C9_TriggerSendsTemplate ==
    (Submitted /\ posted /\ Triggered)
        => /\ DOMAIN payload.V = 1..NUM_FEATURES
           /\ \A i \in 1..NUM_FEATURES :
                /\ payload.V[i] - FRAUD_TRANSACTION_TEMPLATE[i] <= 10
                /\ FRAUD_TRANSACTION_TEMPLATE[i] - payload.V[i] <= 10

C9_Witness ==
    /\ Submitted
    /\ posted
    /\ merchant = SECRET_FRAUD_MERCHANT
    /\ \E i \in 1..NUM_FEATURES :
            payload.V[i] = FRAUD_TRANSACTION_TEMPLATE[i] + 10
    /\ \E i \in 1..NUM_FEATURES :
            payload.V[i] = FRAUD_TRANSACTION_TEMPLATE[i] - 10

\* C10: the wallet always holds between 0 and 500000, so a submission of
\* the trigger amount 987654 ends in InsufficientFunds before the trigger
\* decision: no feature vector is built and nothing is posted.
C10_AmountTriggerUnreachable ==
    /\ wallet_balance >= 0
    /\ wallet_balance <= INITIAL_WALLET_BALANCE
    /\ ((Submitted /\ amount = SECRET_FRAUD_AMOUNT)
            => /\ outcome = "InsufficientFunds"
               /\ ~posted
               /\ payload = NoPayload)

C10_Witness ==
    /\ Submitted
    /\ amount = SECRET_FRAUD_AMOUNT
    /\ merchant # SECRET_FRAUD_MERCHANT
    /\ prevBalance = INITIAL_WALLET_BALANCE
    /\ outcome = "InsufficientFunds"
    /\ ~posted

====
